---- MODULE Spec2Model ----
(***************************************************************************)
(* The faucet's GET /send/:address handler (src/faucet.js) with its        *)
(* collaborators: the FrequencyChecker quota store, and the chain reached  *)
(* through the signing client.  Strings are sequences of tokens, so that   *)
(* startsWith and includes are computed, not assumed.                      *)
(***************************************************************************)
EXTENDS Integers, Sequences, FiniteSets, TLC

VARIABLES
    rq,       \* per request: position in the handler, locals, and its history
    store,    \* FrequencyChecker's db: subject key -> recorded event instants
    now,      \* the clock
    chain,    \* the chain: its id, the custodial account's existence and sequence
    admits,   \* history: subject key -> instants at which a request of it was admitted
    bcast,    \* history: the sequences of the transfers sendTx returned, in order
    lost      \* history: the sequences the chain consumed for transfers sendTx threw on

vars == <<rq, store, now, chain, admits, bcast, lost>>

-----------------------------------------------------------------------------
\* Bounds of the model
NumReqs == 2
MaxTime == 2

Reqs == 1..NumReqs

\* src/config.js
LimitAddress == 5
LimitIp == 5
Prefix == <<"int3">>
ConfChainId == "int3face-1"
TxAmount == [denom |-> "uint3", amount |-> "1000000"]
TxFee == [amount |-> <<[amount |-> "1000", denom |-> "uint3"]>>, gas |-> "200000"]

\* The lookback window (24 hours), in clock ticks
Window == 2

\* Inputs
AddrA == <<"int3", "a">>
AddrB == <<"int3", "b">>
AddrForeign == <<"cosmos", "a">>
AddrEmpty == <<>>
Addresses == {AddrA, AddrB, AddrForeign, AddrEmpty}
Ips == {<<"ip1">>, <<"ip2">>}
Keys == {AddrA, AddrB} \cup Ips
ChainIds == {ConfChainId, "other-1"}

Limit(k) == IF k \in Ips THEN LimitIp ELSE LimitAddress

-----------------------------------------------------------------------------
\* String operations

\* String.prototype.startsWith
StartsWith(s, p) == Len(s) >= Len(p) /\ SubSeq(s, 1, Len(p)) = p

\* String.prototype.includes
Includes(s, p) ==
    \E i \in 1..(Len(s) + 1) : i + Len(p) - 1 <= Len(s) /\ SubSeq(s, i, i + Len(p) - 1) = p

\* Error messages
NotOnChain == <<"does", "not", "exist", "on", "chain">>
NetErr == <<"fetch", "failed">>
SeqErr == <<"account", "sequence", "mismatch">>
AccountErr == <<"Account", "does", "not", "exist", "on", "chain", ".">>
StoreErr == <<"Database", "is", "not", "open">>
ChainIdErr(got) == <<"Chain-id", "mismatch:", "expected", ConfChainId, "got", got>>
NoAccountErr == <<"Account", "does", "not", "exist", "on", "the", "blockchain.">>
AmountErr == <<"Invalid", "transaction", "amount", "format", "in", "configuration.">>
FeeErr == <<"Invalid", "transaction", "fee", "format", "in", "configuration.">>

\* sendTx's catch: the error re-thrown with the recipient
Wrap(recipient, m) == <<"Transaction", "failed", "for", "recipient">> \o recipient \o <<":">> \o m

\* Variant of lines 106-111 that answers every error alike
ErrorStatusOpaque(m) == 500

\* The handler's catch: the status of the response
ErrorStatus(m) == IF Includes(m, NotOnChain) THEN 400 ELSE 500

-----------------------------------------------------------------------------
\* FrequencyChecker

\* The events of a record that still count at instant t
Live(rec, t) == SelectSeq(rec, LAMBDA x : t - x < Window)

\* The record of key in history h, or an empty one
Record(h, key) == IF key \in DOMAIN h THEN h[key] ELSE <<>>

\* History h with record rec for key
Saved(h, key, rec) == [x \in DOMAIN h \cup {key} |-> IF x = key THEN rec ELSE h[x]]

\* checker.checkAddress / checker.checkIp, the store answering (up) or not:
\* deny when it does not
Check(key, limit, up) == up /\ Len(Live(Record(store, key), now)) < limit

\* checker.update: the store after recording an event of key
Updated(key) == Saved(store, key, Append(Live(Record(store, key), now), now))

\* How a call of checker.update can end: recorded; or, the store not answering,
\* an exception or a silent loss
UpdateOutcomes == {"ok", "throw", "lost"}

-----------------------------------------------------------------------------
NewReq ==
    [pc |-> "idle", address |-> AddrEmpty, ip |-> <<"ip1">>,
     isAddressAllowed |-> FALSE, isIpAllowed |-> FALSE, sequence |-> -1,
     status |-> 0, cause |-> "none", hung |-> FALSE,
     calls |-> {}, upd |-> <<>>, recorded |-> <<>>, fault |-> FALSE,
     recFull |-> FALSE, admFull |-> FALSE, overlap |-> FALSE, responses |-> 0]

\* The transfers sent before the requests modelled here: one, with sequence 0
Earlier == <<0>>

\* A persisted record of n events: at instant 0, and, when the record is at
\* the limit, the oldest one instant earlier
Zeros(n) == [i \in 1..n |-> 0]
Persisted(k, n) == IF n = Limit(k) THEN <<-1>> \o Zeros(n - 1) ELSE Zeros(n)
InitCounts(k) == IF k \in {AddrA, <<"ip1">>} THEN {Limit(k) - 1, Limit(k)} ELSE {Limit(k) - 1}

Init ==
    /\ rq = [r \in Reqs |-> NewReq]
    /\ \E c \in [Keys -> 0..LimitAddress + LimitIp] :
          /\ \A k \in Keys : c[k] \in InitCounts(k)
          /\ store = [k \in Keys |-> Persisted(k, c[k])]
          /\ admits = [k \in Keys |-> Persisted(k, c[k])]
    /\ now = 0
    /\ \E id \in ChainIds, ex \in BOOLEAN :
          /\ (id = ConfChainId \/ ex)
          /\ chain = [id |-> id, exists |-> ex, seq |-> Len(Earlier)]
    /\ bcast = Earlier
    /\ lost = {}

InFlight(r) == rq[r].pc \notin {"idle", "done"}

\* res.status(code).json(...) / res.send(...): the response ends the request
Respond(r, code, cause) ==
    [rq[r] EXCEPT !.pc = "done", !.status = code, !.cause = cause, !.responses = @ + 1]

\* The handler's catch block
Caught(r, m, cause) == Respond(r, ErrorStatus(m), cause)

\* sendTx's catch block, then the handler's
Thrown(r, m, cause) == Caught(r, Wrap(rq[r].address, m), cause)

-----------------------------------------------------------------------------
\* Mutant: the prefix test of lines 78-80 is dropped
ValidatedAnyPrefix(a) == a # <<>>

\* Lines 73-80: the address is present and carries the prefix
Validated(a) == a # <<>> /\ StartsWith(a, Prefix)

\* Lines 68-84: the request arrives, is validated, and checkAddress is called.
\* Requests are numbered in their order of arrival.
Receive(r) ==
    /\ rq[r].pc = "idle"
    /\ \A q \in Reqs : q < r => rq[q].pc # "idle"
    /\ \E a \in Addresses, i \in Ips :
          LET busy == \E q \in Reqs : InFlight(q)
              base == [rq EXCEPT ![r] = [@ EXCEPT !.address = a, !.ip = i, !.overlap = busy]]
              all == [q \in Reqs |->
                        IF q # r /\ InFlight(q) THEN [base[q] EXCEPT !.overlap = TRUE]
                        ELSE base[q]]
          IN  rq' = [all EXCEPT ![r] =
                        IF Validated(a) THEN [@ EXCEPT !.pc = "checkAddress"]
                        ELSE [@ EXCEPT !.pc = "done", !.status = 400, !.cause = "invalid",
                                       !.responses = @ + 1]]
    /\ UNCHANGED <<store, now, chain, admits, bcast, lost>>

\* Whether the history of key k holds at least its limit of events in the window
Full(hist, k) == Len(Live(Record(hist, k), now)) >= Limit(k)

\* Line 84: checkAddress answers
CheckAddress(r) ==
    /\ rq[r].pc = "checkAddress"
    /\ \E up \in BOOLEAN :
          rq' = [rq EXCEPT ![r] = [@ EXCEPT
                !.pc = "checkIp",
                !.isAddressAllowed = Check(rq[r].address, LimitAddress, up),
                !.fault = @ \/ ~up,
                !.recFull = @ \/ Full(store, rq[r].address),
                !.admFull = @ \/ Full(admits, rq[r].address)]]
    /\ UNCHANGED <<store, now, chain, admits, bcast, lost>>

\* Variant of line 85 that passes the recipient address to checkIp
CheckIpOfAddress(r) ==
    /\ rq[r].pc = "checkIp"
    /\ \E up \in BOOLEAN :
          rq' = [rq EXCEPT ![r] = [@ EXCEPT
                !.pc = "decide",
                !.isIpAllowed = Check(rq[r].address, LimitIp, up),
                !.fault = @ \/ ~up,
                !.recFull = @ \/ Full(store, rq[r].address),
                !.admFull = @ \/ Full(admits, rq[r].address)]]
    /\ UNCHANGED <<store, now, chain, admits, bcast, lost>>

\* Line 85: checkIp answers
CheckIp(r) ==
    /\ rq[r].pc = "checkIp"
    /\ \E up \in BOOLEAN :
          rq' = [rq EXCEPT ![r] = [@ EXCEPT
                !.pc = "decide",
                !.isIpAllowed = Check(rq[r].ip, LimitIp, up),
                !.fault = @ \/ ~up,
                !.recFull = @ \/ Full(store, rq[r].ip),
                !.admFull = @ \/ Full(admits, rq[r].ip)]]
    /\ UNCHANGED <<store, now, chain, admits, bcast, lost>>

\* Mutant: the request is denied only when both checks refuse
DeniedByBoth(r) == ~rq[r].isAddressAllowed /\ ~rq[r].isIpAllowed

\* Line 87
Denied(r) == ~rq[r].isAddressAllowed \/ ~rq[r].isIpAllowed

\* Mutant: the origin's event is recorded before the checks are looked at
DenyAfterUpdate(r) ==
    /\ rq' = [rq EXCEPT ![r] = [Respond(r, 429, "quota") EXCEPT
                                   !.upd = Append(@, rq[r].ip),
                                   !.recorded = Append(@, rq[r].ip)]]
    /\ store' = Updated(rq[r].ip)
    /\ UNCHANGED admits

\* Variant of line 88 without its return: the handler goes on after responding
DenyWithoutReturn(r) ==
    /\ rq' = [rq EXCEPT ![r] = [Respond(r, 429, "quota") EXCEPT
                                   !.pc = "connect",
                                   !.calls = @ \cup {"connect"},
                                   !.upd = Append(@, rq[r].ip),
                                   !.recorded = Append(@, rq[r].ip)]]
    /\ store' = Updated(rq[r].ip)
    /\ UNCHANGED admits

\* Line 88: the quota-exceeded response
Deny(r) ==
    /\ rq' = [rq EXCEPT ![r] = Respond(r, 429, "quota")]
    /\ UNCHANGED <<store, admits>>

\* Mutant: the recipient's event is recorded before the transfer
FirstUpdateAddress(r) == rq[r].address

\* The subject whose event is recorded before the transfer (line 92)
FirstUpdate(r) == rq[r].ip

\* Lines 91-95 and 137-148: the first update, then sendTx up to connectWithSigner
Admit(r) ==
    \E o \in UpdateOutcomes :
       LET k == FirstUpdate(r)
           u == [rq[r] EXCEPT !.upd = Append(@, k),
                              !.recorded = IF o = "ok" THEN Append(@, k) ELSE @,
                              !.fault = @ \/ o # "ok"]
       IN  /\ store' = IF o = "ok" THEN Updated(k) ELSE store
           /\ admits' = LET a == Saved(admits, rq[r].address,
                                        Append(Record(admits, rq[r].address), now))
                         IN  Saved(a, rq[r].ip, Append(Record(a, rq[r].ip), now))
           /\ rq' = [rq EXCEPT ![r] =
                       IF o = "throw"
                       THEN [u EXCEPT !.pc = "done", !.status = ErrorStatus(StoreErr),
                                      !.cause = "store", !.responses = @ + 1]
                       ELSE [u EXCEPT !.pc = "connect", !.calls = @ \cup {"connect"}]]

\* Lines 87-95
Decide(r) ==
    /\ rq[r].pc = "decide"
    /\ IF Denied(r) THEN Deny(r) ELSE Admit(r)
    /\ UNCHANGED <<now, chain, bcast, lost>>

-----------------------------------------------------------------------------
\* sendTx

\* A chain call the collaborator may still answer
Pending(r, at) == rq[r].pc = at /\ ~rq[r].hung

\* Variant of line 99 that records the origin a second time
SecondUpdateIp(r) == rq[r].ip

\* The subject whose event is recorded after the transfer (line 99)
SecondUpdate(r) == rq[r].address

\* Lines 96-102 and 198: sendTx returned; the second update, then the response
Sent(r) ==
    \E o \in UpdateOutcomes :
       LET k == SecondUpdate(r)
           u == [rq[r] EXCEPT !.upd = Append(@, k),
                              !.recorded = IF o = "ok" THEN Append(@, k) ELSE @,
                              !.fault = @ \/ o # "ok"]
       IN  /\ store' = IF o = "ok" THEN Updated(k) ELSE store
           /\ bcast' = Append(bcast, rq[r].sequence)
           /\ rq' = [rq EXCEPT ![r] =
                       IF o = "throw"
                       THEN [u EXCEPT !.pc = "done", !.status = ErrorStatus(StoreErr),
                                      !.cause = "store", !.responses = @ + 1]
                       ELSE [u EXCEPT !.pc = "done", !.status = 200, !.responses = @ + 1]]

\* Mutant: sendTx's catch swallows the error, and sendTx returns
SendTxSwallows(r, m, cause) == Sent(r)

\* Variant of lines 199-205 that runs sendTx again from its start
SendTxRetries(r, m, cause) ==
    /\ rq' = [rq EXCEPT ![r] = [@ EXCEPT !.pc = "connect"]]
    /\ UNCHANGED <<store, bcast>>

\* Lines 199-205 and 103-113: an error inside sendTx is re-thrown with the
\* recipient, and the handler answers it
SendTxThrows(r, m, cause) ==
    /\ rq' = [rq EXCEPT ![r] = Thrown(r, m, cause)]
    /\ UNCHANGED <<store, bcast>>

\* Line 148: connectWithSigner answers or fails
Connect(r) ==
    /\ Pending(r, "connect")
    /\ \/ /\ rq' = [rq EXCEPT ![r] = [@ EXCEPT !.pc = "getChainId",
                                              !.calls = @ \cup {"getChainId"}]]
          /\ UNCHANGED <<store, bcast>>
       \/ SendTxThrows(r, NetErr, "network")
    /\ UNCHANGED <<now, chain, admits, lost>>

\* Variant of line 152 that accepts any chain id
ChainIdNeverMismatch(chainId) == FALSE

\* Line 152
ChainIdMismatch(chainId) == chainId # ConfChainId

\* Lines 151-156: getChainId answers or fails; the chain id is compared
GetChainId(r) ==
    /\ Pending(r, "getChainId")
    /\ \/ IF ChainIdMismatch(chain.id)
          THEN SendTxThrows(r, ChainIdErr(chain.id), "chainid")
          ELSE /\ rq' = [rq EXCEPT ![r] = [@ EXCEPT !.pc = "getAccount",
                                                   !.calls = @ \cup {"getAccount"}]]
               /\ UNCHANGED <<store, bcast>>
       \/ SendTxThrows(r, NetErr, "network")
    /\ UNCHANGED <<now, chain, admits, lost>>

\* Lines 170-173
AmountInvalid == TxAmount.amount = "" \/ TxAmount.denom = ""

\* Lines 176-179
FeeInvalid == Len(TxFee.amount) = 0 \/ TxFee.gas = ""

\* Variant of lines 159-167 that advances the sequence of the last attempt
\* instead of using the one the chain returns
SequenceAfterLast(r) ==
    LET used == {rq[q].sequence : q \in Reqs} \ {-1}
    IN  IF used = {} THEN chain.seq
        ELSE (CHOOSE s \in used : \A x \in used : x <= s) + 1

\* Lines 159 and 167: the sequence of the account the chain returns
AccountSequence(r) == chain.seq

\* Lines 159-196: getAccount answers or fails; the account's sequence is read,
\* the configured amount and fee are validated, and sendTokens is called
GetAccount(r) ==
    /\ Pending(r, "getAccount")
    /\ \/ IF ~chain.exists THEN SendTxThrows(r, NoAccountErr, "noaccount")
          ELSE IF AmountInvalid THEN SendTxThrows(r, AmountErr, "config")
          ELSE IF FeeInvalid THEN SendTxThrows(r, FeeErr, "config")
          ELSE /\ rq' = [rq EXCEPT ![r] = [@ EXCEPT !.pc = "sendTokens",
                                                   !.sequence = AccountSequence(r),
                                                   !.calls = @ \cup {"sendTokens"}]]
               /\ UNCHANGED <<store, bcast>>
       \/ SendTxThrows(r, NetErr, "network")
    /\ UNCHANGED <<now, chain, admits, lost>>

\* The chain accepts a transfer signed with sequence s only when s is the
\* custodial account's current sequence
Accepts(s) == s = chain.seq

\* Lines 187-205: sendTokens answers or fails
SendTokens(r) ==
    /\ Pending(r, "sendTokens")
    /\ \/ \* accepted and acknowledged
          /\ Accepts(rq[r].sequence)
          /\ chain' = [chain EXCEPT !.seq = @ + 1]
          /\ Sent(r)
          /\ UNCHANGED lost
       \/ \* accepted, but the answer is lost
          /\ Accepts(rq[r].sequence)
          /\ chain' = [chain EXCEPT !.seq = @ + 1]
          /\ lost' = lost \cup {rq[r].sequence}
          /\ SendTxThrows(r, NetErr, "lostack")
       \/ \* rejected by the chain
          /\ ~Accepts(rq[r].sequence)
          /\ SendTxThrows(r, SeqErr, "sequence")
          /\ UNCHANGED <<chain, lost>>
       \/ \* the chain is not reached
          /\ SendTxThrows(r, NetErr, "network")
          /\ UNCHANGED <<chain, lost>>
       \/ \* the chain reports an account missing
          /\ SendTxThrows(r, AccountErr, "onchain")
          /\ UNCHANGED <<chain, lost>>
    /\ UNCHANGED <<now, admits>>

ChainCalls == {"connect", "getChainId", "getAccount", "sendTokens"}

\* One step of the handler of request r
Step(r) ==
    \/ Receive(r)
    \/ CheckAddress(r)
    \/ CheckIp(r)
    \/ Decide(r)
    \/ Connect(r)
    \/ GetChainId(r)
    \/ GetAccount(r)
    \/ SendTokens(r)

-----------------------------------------------------------------------------
\* The environment

\* A chain call that never answers
Hang(r) ==
    /\ rq[r].pc \in ChainCalls
    /\ ~rq[r].hung
    /\ rq' = [rq EXCEPT ![r] = [@ EXCEPT !.hung = TRUE]]
    /\ UNCHANGED <<store, now, chain, admits, bcast, lost>>

Tick ==
    /\ now < MaxTime
    /\ now' = now + 1
    /\ UNCHANGED <<rq, store, chain, admits, bcast, lost>>

Next ==
    \/ \E r \in Reqs : Step(r)
    \/ Tick

\* A request whose chain call has not answered yet is in the same state whether
\* or not the call will answer, so Next covers every state a hung call leads to
Spec == Init /\ [][Next]_vars

NextOrHang ==
    \/ Next
    \/ \E r \in Reqs : Hang(r)

\* The event loop runs every continuation whose awaited call has answered, and
\* every chain call that is not hung is answered
FairSpec == Init /\ [][NextOrHang]_vars /\ \A r \in Reqs : WF_vars(Step(r))

-----------------------------------------------------------------------------
\* Properties

Done(r) == rq[r].pc = "done"
Broadcast(r) == "sendTokens" \in rq[r].calls
SendTxCauses == {"network", "chainid", "noaccount", "config", "sequence", "lostack", "onchain"}
SendTxThrew(r) == Done(r) /\ rq[r].cause \in SendTxCauses
Admitted(r) == rq[r].upd # <<>>
Instants == 0..MaxTime

\* The number of events of history h that fall in the window ending at instant t
InWindow(h, t) == Cardinality({i \in 1..Len(h) : h[i] <= t /\ t - h[i] < Window})

\* C1: for every subject key and every window, the number of requests admitted
\* for that key within the window never exceeds the key's limit (no quota
\* operation having failed).
C1_AdmittedWithinLimit ==
    (\A q \in Reqs : ~rq[q].fault) =>
       \A k \in DOMAIN admits, t \in Instants : InWindow(admits[k], t) <= Limit(k)

\* C2: at most one in-flight request is between reading the account's sequence
\* and the end of its broadcast, and no two such requests hold the same sequence.
C2_DispatchSerialized ==
    \A r1, r2 \in Reqs :
       (r1 # r2 /\ rq[r1].pc = "sendTokens") => rq[r2].pc # "sendTokens"

\* C3 (as claimed): the sequences of the successful broadcasts are pairwise
\* distinct and each is exactly one more than that of the success before it.
C3_SuccessesConsecutive ==
    \A i \in 1..Len(bcast) : i > 1 => bcast[i] = bcast[i - 1] + 1

\* C3 (amended): the sequences of the successful broadcasts are strictly
\* increasing, hence pairwise distinct, and every sequence skipped between two
\* successive successes was consumed on the chain by a transfer whose broadcast
\* was reported as failed.
C3_SuccessesIncreasing ==
    \A i \in 1..Len(bcast) :
       i > 1 => /\ bcast[i] > bcast[i - 1]
                /\ \A s \in (bcast[i - 1] + 1)..(bcast[i] - 1) : s \in lost

C3_Witness ==
    /\ Len(bcast) = Len(Earlier) + 2
    /\ \E r1, r2 \in Reqs : r1 # r2 /\ rq[r1].overlap /\ rq[r2].overlap
                            /\ rq[r1].status = 200 /\ rq[r2].status = 200

C6_InvalidRecipientRejectedFirst ==
    \A r \in Reqs :
       (rq[r].pc # "idle" /\ ~StartsWith(rq[r].address, Prefix)) =>
          /\ Done(r) /\ rq[r].status = 400
          /\ rq[r].upd = <<>> /\ rq[r].calls = {}
          /\ ~rq[r].recFull /\ ~rq[r].fault /\ rq[r].sequence = -1

C6_Witness ==
    \E r \in Reqs :
       /\ Done(r) /\ rq[r].address = AddrForeign /\ rq[r].status = 400
       /\ \A k \in Keys : store[k] = admits[k] /\ \A i \in 1..Len(store[k]) : store[k][i] <= 0
       /\ chain.seq = Len(Earlier)

\* C7: two requests in flight together, to distinct addresses, both admitted and
\* neither meeting a failure of the network, the store or the configuration,
\* both end in success with consecutive sequences.
C7_ConcurrentBothSucceed ==
    \A r1, r2 \in Reqs :
       ( /\ r1 # r2 /\ Done(r1) /\ Done(r2)
         /\ rq[r1].overlap /\ rq[r2].overlap
         /\ rq[r1].address # rq[r2].address
         /\ Admitted(r1) /\ Admitted(r2)
         /\ ~rq[r1].fault /\ ~rq[r2].fault
         /\ rq[r1].cause \in {"none", "sequence"} /\ rq[r2].cause \in {"none", "sequence"} )
       => /\ rq[r1].status = 200 /\ rq[r2].status = 200
          /\ rq[r1].sequence - rq[r2].sequence \in {1, -1}

\* C8: a request one of whose quota operations found the store unavailable
\* broadcasts nothing and is not answered with success.
C8_FailClosed ==
    \A r \in Reqs : rq[r].fault => (~Broadcast(r) /\ rq[r].status # 200)

\* C9: a request answered 429 has made no quota update and no chain call: its
\* two quota checks and the step that answers 429 leave the store and the chain
\* as they were.
C9_DenialChangesNothing ==
    [][\A r \in Reqs :
          ( \/ rq[r].pc = "checkAddress" /\ rq'[r].pc = "checkIp"
            \/ rq[r].pc = "checkIp" /\ rq'[r].pc = "decide"
            \/ rq[r].pc = "decide" /\ rq'[r].status = 429 ) =>
             /\ store' = store /\ chain' = chain
             /\ rq'[r].upd = <<>> /\ rq'[r].recorded = <<>> /\ rq'[r].calls = {}]_vars

C9_Witness ==
    \E r \in Reqs :
       /\ rq[r].status = 429 /\ ~rq[r].fault
       /\ rq[r].isAddressAllowed /\ ~rq[r].isIpAllowed
       /\ Len(store[rq[r].ip]) = LimitIp

\* C10: every request that has arrived eventually ends, even when a chain call
\* never answers.
C10_EveryRequestEnds ==
    \A r \in Reqs : (rq[r].pc # "idle") ~> Done(r)

\* C11: a request has broadcast only if the chain it is connected to has the
\* configured chain id and holds the custodial account, and only after its
\* getChainId and getAccount calls; a request whose chain-id or account
\* confirmation failed ends in failure without a broadcast.
C11_BroadcastAfterConfirmations ==
    \A r \in Reqs :
       /\ Broadcast(r) =>
             /\ {"getChainId", "getAccount"} \subseteq rq[r].calls
             /\ chain.id = ConfChainId
             /\ chain.exists
       /\ (Done(r) /\ rq[r].cause \in {"chainid", "noaccount"}) =>
             /\ ~Broadcast(r)
             /\ rq[r].status # 200
       /\ (InFlight(r) /\ (chain.id # ConfChainId \/ ~chain.exists)) =>
             rq[r].pc # "sendTokens"

\* A request that broadcast after both confirmations
C11_Witness ==
    \E r \in Reqs : Broadcast(r) /\ rq[r].status = 200 /\ rq[r].calls = ChainCalls

\* C12 (as claimed): once a request has ended on a configuration error (chain-id
\* mismatch or custodial account absent), a request received after it makes no
\* chain call.
C12_ConfigErrorDisablesDispatch ==
    \A r1, r2 \in Reqs :
       (/\ r1 < r2
        /\ Done(r1)
        /\ rq[r1].cause \in {"chainid", "noaccount"}
        /\ ~rq[r2].overlap) => rq[r2].calls = {}

\* Whether the history of key k began with a record at the limit, whose oldest
\* event is one instant older than the others
BeganFull(k) == Len(admits[k]) >= Limit(k) /\ admits[k][1] < 0

Steps == <<"idle", "checkAddress", "checkIp", "decide",
           "connect", "getChainId", "getAccount", "sendTokens", "done">>
Rank(pc) == CHOOSE i \in 1..Len(Steps) : Steps[i] = pc

\* C14: a request only moves forward through its steps and never returns to an
\* earlier one: each chain call is issued by entering its step from an earlier
\* one, so at most one broadcast is issued; and once the request has ended, with
\* a failed broadcast or otherwise, it issues no further call and its response
\* does not change.
C14_OnlyForward ==
    [][\A r \in Reqs :
          /\ Rank(rq'[r].pc) >= Rank(rq[r].pc)
          /\ rq[r].calls \subseteq rq'[r].calls
          /\ \A c \in rq'[r].calls \ rq[r].calls :
                rq'[r].pc = c /\ Rank(rq[r].pc) < Rank(c)
          /\ Done(r) =>
                /\ rq'[r].pc = "done"
                /\ rq'[r].calls = rq[r].calls
                /\ rq'[r].status = rq[r].status
                /\ rq'[r].upd = rq[r].upd]_vars

\* A request ended by a failed broadcast, after every chain call of sendTx
C14_Witness ==
    \E r \in Reqs :
       Done(r) /\ rq[r].cause = "sequence" /\ rq[r].status = 500 /\ rq[r].calls = ChainCalls

\* C15: the sequence a request broadcasts with is the one the chain returned to
\* that request's own getAccount call, and the broadcast is issued with it as
\* soon as it is returned: the sequence is set by no other step, so an attempt
\* issued after a failed broadcast uses the chain's sequence as it is after
\* the failure, whatever sequence the failed attempt held.
C15_SequenceFromChain ==
    [][\A r \in Reqs :
          /\ rq'[r].sequence # rq[r].sequence =>
                /\ rq[r].pc = "getAccount"
                /\ rq'[r].sequence = chain.seq
          /\ "sendTokens" \in rq'[r].calls \ rq[r].calls =>
                /\ rq[r].pc = "getAccount"
                /\ rq'[r].sequence = chain.seq
          /\ rq'[r].pc = "sendTokens" =>
                /\ "getAccount" \in rq'[r].calls
                /\ rq'[r].sequence >= 0]_vars

\* A broadcast failed without its sequence being consumed; the request received
\* after it read the same sequence from the chain and its transfer succeeded
C15_Witness ==
    \E r1, r2 \in Reqs :
       /\ r1 < r2 /\ ~rq[r2].overlap
       /\ Done(r1) /\ Broadcast(r1) /\ rq[r1].cause = "network"
       /\ rq[r2].status = 200
       /\ rq[r2].sequence = rq[r1].sequence

\* C16 (as claimed): every failure inside sendTx is answered with status 500,
\* whatever the error was.
C16_DispatchFailureOpaque ==
    \A r \in Reqs : SendTxThrew(r) => rq[r].status = 500

\* C16 (amended): an invalid recipient is answered 400, a quota denial 429, and
\* a failure inside sendTx 500, except a failure whose message contains "does
\* not exist on chain", which is answered 400; the status depends on no other
\* part of the error.
C16_SignalsPerClass ==
    \A r \in Reqs :
       Done(r) =>
          /\ rq[r].cause = "invalid" => rq[r].status = 400
          /\ rq[r].cause = "quota" => rq[r].status = 429
          /\ rq[r].cause = "onchain" => rq[r].status = 400
          /\ rq[r].cause \in SendTxCauses \ {"onchain"} => rq[r].status = 500
          /\ rq[r].cause \in SendTxCauses => rq[r].status \notin {200, 429}
          /\ rq[r].status = 429 => rq[r].cause = "quota"

\* Requests answered 400 for a chain error naming a missing account and 500 for
\* another failure inside sendTx
C16_Witness ==
    \E r1, r2 \in Reqs :
       /\ Done(r1) /\ rq[r1].cause = "onchain" /\ rq[r1].status = 400 /\ Broadcast(r1)
       /\ Done(r2) /\ rq[r2].cause = "network" /\ rq[r2].status = 500

\* C17: a request answered with success issued exactly two quota updates, the
\* first for its origin and the second for its recipient address, and none for
\* another key.
C17_SuccessUpdatesBoth ==
    \A r \in Reqs :
       rq[r].status = 200 => rq[r].upd = <<rq[r].ip, rq[r].address>>

\* A request answered with success after a broadcast, both of its updates
\* recorded
C17_Witness ==
    \E r \in Reqs :
       /\ rq[r].status = 200 /\ Broadcast(r)
       /\ rq[r].recorded = <<rq[r].ip, rq[r].address>>

\* C18: a request has sent at most one response; it has sent exactly one when
\* it has ended and none before; and, no awaited call hanging, a request that
\* has not ended can take its next step.
C18_OneResponse ==
    \A r \in Reqs :
       /\ rq[r].responses <= 1
       /\ Done(r) <=> rq[r].responses = 1
       /\ (rq[r].status # 0) <=> rq[r].responses = 1
       /\ (InFlight(r) /\ ~rq[r].hung) => ENABLED Step(r)

\* One request denied for quota and one answered after a dispatch error, each
\* with one response
C18_Witness ==
    \E r1, r2 \in Reqs :
       /\ Done(r1) /\ rq[r1].cause = "quota" /\ rq[r1].responses = 1
       /\ Done(r2) /\ rq[r2].cause = "network" /\ Broadcast(r2) /\ rq[r2].responses = 1

====
